---- MODULE Spec2Model ----
(***************************************************************************)
(* Flakiness summarizer of testgrid (package summarizer).                  *)
(*                                                                         *)
(* The repository holds two revisions of flakiness.go:                     *)
(*   "flakiness.go" : src/pkg/summarizer/flakiness.go                      *)
(*   "part_002"     : src/unnamed/part_002 (the revision the tests in      *)
(*                    flakiness_test.go compile against)                   *)
(* parseGrid, calculateNaiveFlakiness, categorizeFailure,                  *)
(* getValueOfFlakyResult and isWithinTimeFrame are the same in both; the   *)
(* name splitting, createHealthiness and calculateInfraInfo differ, and    *)
(* each revision of those has its own definition (suffix _v1 for           *)
(* flakiness.go, _v2 for part_002).  The variable rev says which revision  *)
(* a behaviour runs.                                                       *)
(*                                                                         *)
(* Strings are sequences of one-character strings, so that the regular    *)
(* expressions, the concatenations and the natural ordering act on        *)
(* characters.  float64 values are exact rationals <<num, den>>; NaN is    *)
(* <<0, 0>>.  With the small counts of the model every quotient computed   *)
(* here is either exactly representable or rounded the same way each time  *)
(* it is computed, so equality and order of the float64 values are those   *)
(* of the rationals.                                                       *)
(***************************************************************************)
EXTENDS Integers, Sequences, FiniteSets, TLC

VARIABLES
    rev,            \* which revision of flakiness.go runs
    pc,             \* position of the program
    columns,        \* grid.Columns: the Started time of each column
    startTime, endTime,
    rowIdx,         \* number of rows of grid.Rows already scanned
    test,           \* the row being scanned (loop variable of parseGrid)
    i,              \* parseGrid's position counter (0-based, -1 before the scan)
    resultCounts,   \* parseGrid's per-row Result
    results,        \* []Result: output of parseGrid, input of naiveFlakiness
    scanned,        \* history: name and final resultCounts of every scanned row
    minRuns, tab,   \* arguments of naiveFlakiness
    testIdx,        \* number of results naiveFlakiness has processed
    testByEnv,      \* map[string]TestInfo
    infraIssues,    \* map[string]int
    healthiness,    \* the report
    call,           \* arguments of a function applied on its own
    ret             \* its return value

vars == <<rev, pc, columns, startTime, endTime, rowIdx, test, i, resultCounts,
          results, scanned, minRuns, tab, testIdx, testByEnv, infraIssues,
          healthiness, call, ret>>

----------------------------------------------------------------------------
(* Bounds *)

\* number of columns of the grid (decoded positions of a row)
MaxCols == 2

----------------------------------------------------------------------------
(* Characters and strings *)

\* The printable ASCII characters in code order, from 32 (space) to 126
\* (code 96 is spelled out: it never occurs in a string of the model).
Ascii ==
    <<" ", "!", "\"", "#", "$", "%", "&", "'", "(", ")", "*", "+", ",", "-",
      ".", "/", "0", "1", "2", "3", "4", "5", "6", "7", "8", "9", ":", ";",
      "<", "=", ">", "?", "@", "A", "B", "C", "D", "E", "F", "G", "H", "I",
      "J", "K", "L", "M", "N", "O", "P", "Q", "R", "S", "T", "U", "V", "W",
      "X", "Y", "Z", "[", "\\", "]", "^", "_", "(backtick)", "a", "b", "c", "d", "e",
      "f", "g", "h", "i", "j", "k", "l", "m", "n", "o", "p", "q", "r", "s",
      "t", "u", "v", "w", "x", "y", "z", "{", "|", "}", "~">>

\* byte value of every character
OrdTable ==
    [c \in {Ascii[k] : k \in 1..Len(Ascii)} |->
        31 + (CHOOSE k \in 1..Len(Ascii) : Ascii[k] = c)]

\* byte value of a character
Ord(c) == OrdTable[c]

InRange(c, lo, hi) == Ord(lo) <= Ord(c) /\ Ord(c) <= Ord(hi)

IsDigit(c) == InRange(c, "0", "9")
IsLower(c) == InRange(c, "a", "z")
IsUpper(c) == InRange(c, "A", "Z")

Chars == DOMAIN OrdTable

\* regexp class \w
IsWordChar(c) == IsDigit(c) \/ IsLower(c) \/ IsUpper(c) \/ c = "_"

WordChars == {c \in Chars : IsWordChar(c)}

\* regexp class \s (of the printable characters only the space)
IsSpace(c) == c = " "

SpaceChars == {c \in Chars : IsSpace(c)}

\* s[from..to] with 1-based inclusive positions, empty when from > to
Slice(s, from, to) == IF from > to THEN <<>> ELSE SubSeq(s, from, to)

\* does literal lit occur in s at position p (1-based)?
HasAt(s, p, lit) ==
    /\ p + Len(lit) - 1 <= Len(s)
    /\ \A k \in 1..Len(lit) : s[p + k - 1] = lit[k]

\* all characters of s[from..to] belong to the class (a set of characters)
AllIn(s, from, to, class) == \A k \in from..to : s[k] \in class

----------------------------------------------------------------------------
(* float64 as exact rationals *)

RECURSIVE Gcd(_, _)
Gcd(a, b) == IF b = 0 THEN a ELSE Gcd(b, a % b)

Abs(x) == IF x < 0 THEN -x ELSE x

NaN == <<0, 0>>

IsNaN(x) == x = NaN

\* the quotient n/d of two integers as a float64 (0/0 is NaN, x/0 is +-Inf)
Rat(n, d) ==
    IF d = 0 THEN (IF n = 0 THEN NaN ELSE IF n > 0 THEN <<1, 0>> ELSE <<-1, 0>>)
    ELSE LET g == Gcd(Abs(n), Abs(d))
             s == IF d < 0 THEN -1 ELSE 1
         IN  <<s * (n \div g), s * (d \div g)>>

FromInt(n) == <<n, 1>>

\* x + y ; NaN is absorbing
FAdd(x, y) ==
    IF IsNaN(x) \/ IsNaN(y) THEN NaN
    ELSE IF x[2] = 0 \/ y[2] = 0
         THEN (IF x[2] = 0 /\ y[2] = 0 /\ x[1] # y[1] THEN NaN
               ELSE IF x[2] = 0 THEN x ELSE y)
    ELSE Rat(x[1] * y[2] + y[1] * x[2], x[2] * y[2])

FSub(x, y) == FAdd(x, <<-y[1], y[2]>>)

\* x / y for finite x, y
FDiv(x, y) ==
    IF IsNaN(x) \/ IsNaN(y) THEN NaN
    ELSE Rat(x[1] * y[2], x[2] * y[1])

\* x < y ; every comparison with NaN is false
FLess(x, y) ==
    /\ ~IsNaN(x) /\ ~IsNaN(y)
    /\ IF x[2] = 0 \/ y[2] = 0
       THEN (IF x[2] = 0 /\ y[2] = 0 THEN x[1] < y[1]
             ELSE IF x[2] = 0 THEN x[1] < 0 ELSE y[1] > 0)
       ELSE x[1] * y[2] < y[1] * x[2]

----------------------------------------------------------------------------
(* Program constants *)

DEFAULT_FLAKINESS == FromInt(50)

MIN_RUNS == 0

\* keys of HEALTHY_RANGE
HEALTHY_RANGE == {20, 10, 3, 0}

Revisions == {"flakiness.go", "part_002"}

----------------------------------------------------------------------------
(* Grid input *)

\* Row.Result codes that occur in the model
Row_Results == {"NO_RESULT", "PASS", "FAIL", "FLAKY", "RUNNING"}

msgEmpty == <<>>
msgInfra1 == <<"i", "n", "f", "r", "a", "_", "1">>
msgInfra2 == <<"i", "n", "f", "r", "a", "2">>
msgAssert == <<"a", " ", "!", "=", " ", "b">>

\* (result, message) a grid cell may hold
Cells ==
    { [result |-> "PASS", message |-> msgEmpty],
      [result |-> "FAIL", message |-> msgEmpty],
      [result |-> "FAIL", message |-> msgAssert],
      [result |-> "FAIL", message |-> msgInfra1],
      [result |-> "FAIL", message |-> msgInfra2],
      [result |-> "FLAKY", message |-> msgEmpty],
      [result |-> "NO_RESULT", message |-> msgInfra1],
      [result |-> "RUNNING", message |-> msgEmpty] }

\* Started times a column may have
Times == {0, 3}

\* (startTime, endTime) of the call
Windows == {<<0, 2>>}

\* names of the rows of the grid, in grid order
RowNames ==
    << <<"/", "/", "t", "1", " ", "-", " ", "[", "e", "1", "]">>,
       <<"t", "e", "s", "t", "_", "1">> >>

\* Run-length encoding of a sequence of result codes, as Row.Results holds
\* it: <<code, count, code, count, ...>> with maximal runs.
RECURSIVE Encode(_)
Encode(rs) ==
    IF rs = <<>> THEN <<>>
    ELSE LET n == CHOOSE n \in 1..Len(rs) :
                     /\ \A k \in 1..n : rs[k] = rs[1]
                     /\ (n < Len(rs) => rs[n + 1] # rs[1])
         IN  <<rs[1], n>> \o Encode(SubSeq(rs, n + 1, Len(rs)))

\* result.Iter: the decoded sequence of a run-length encoded one
RECURSIVE Iter(_)
Iter(enc) ==
    IF Len(enc) < 2 THEN <<>>
    ELSE [k \in 1..enc[2] |-> enc[1]] \o Iter(SubSeq(enc, 3, Len(enc)))

\* result.Coalesce(result, result.IgnoreRunning)
Coalesce(r) == IF r = "RUNNING" THEN "NO_RESULT" ELSE r

EmptyMap == <<>>

\* m[k] += n on a Go map (a missing key reads as 0)
MapAdd(m, k, n) ==
    IF k \in DOMAIN m THEN [m EXCEPT ![k] = @ + n]
    ELSE [x \in DOMAIN m \cup {k} |-> IF x = k THEN n ELSE m[x]]

\* no row is being scanned
NoRow == [Name |-> <<>>, Results |-> <<>>, Messages |-> <<>>]

\* var resultCounts Result; resultCounts.infraFailures = make(map[string]int)
NewResult ==
    [name |-> <<>>, passed |-> 0, failed |-> 0, flakyCount |-> 0,
     averageFlakiness |-> FromInt(0), failedInfraCount |-> 0,
     infraFailures |-> EmptyMap]

----------------------------------------------------------------------------
(* parseGrid and what it calls *)

\* isWithinTimeFrame with both bounds exclusive (a mutant)
isWithinTimeFrame_exclusive(started, start, end) == started > start /\ started < end

isWithinTimeFrame(started, start, end) == started >= start /\ started <= end

\* INFRA_REGEX = ^\w+$
INFRA_REGEX_MatchString(s) == Len(s) >= 1 /\ AllIn(s, 1, Len(s), WordChars)

\* categorizeFailure without the return of its first branch's twin: an
\* infrastructure failure is counted as a failure too (a mutant)
categorizeFailure_alsoFailed(rc, message) ==
    IF message = <<>> \/ ~INFRA_REGEX_MatchString(message)
    THEN [rc EXCEPT !.failed = @ + 1]
    ELSE [rc EXCEPT !.failed = @ + 1,
                    !.failedInfraCount = @ + 1,
                    !.infraFailures = MapAdd(@, message, 1)]

categorizeFailure(rc, message) ==
    IF message = <<>> \/ ~INFRA_REGEX_MatchString(message)
    THEN [rc EXCEPT !.failed = @ + 1]
    ELSE [rc EXCEPT !.failedInfraCount = @ + 1,
                    !.infraFailures = MapAdd(@, message, 1)]

\* getValueOfFlakyResult adding newValue / newCount to the mean, without
\* taking the mean off the new value (a mutant)
getValueOfFlakyResult_noMean(rc) ==
    LET flakiness == DEFAULT_FLAKINESS
        n == rc.flakyCount + 1
    IN  [rc EXCEPT !.flakyCount = n,
                   !.averageFlakiness =
                       FAdd(@, FDiv(flakiness, FromInt(n)))]

getValueOfFlakyResult(rc) ==
    LET flakiness == DEFAULT_FLAKINESS
        n == rc.flakyCount + 1
    IN  [rc EXCEPT !.flakyCount = n,
                   !.averageFlakiness =
                       FAdd(@, FDiv(FSub(flakiness, @), FromInt(n)))]

\* scanPosition without the time window (a mutant)
scanPosition_noWindow(rc, row, k, cols, start, end) ==
    LET rowResult == Coalesce(Iter(row.Results)[k + 1])
    IN  CASE rowResult = "NO_RESULT" -> rc
          [] rowResult = "FAIL" -> categorizeFailure(rc, row.Messages[k + 1])
          [] rowResult = "PASS" -> [rc EXCEPT !.passed = @ + 1]
          [] rowResult = "FLAKY" -> getValueOfFlakyResult(rc)
          [] OTHER -> rc

\* the body of parseGrid's inner loop for decoded position k (0-based)
scanPosition(rc, row, k, cols, start, end) ==
    IF ~isWithinTimeFrame(cols[k + 1], start, end) THEN rc
    ELSE LET rowResult == Coalesce(Iter(row.Results)[k + 1])
         IN  CASE rowResult = "NO_RESULT" -> rc
               [] rowResult = "FAIL" -> categorizeFailure(rc, row.Messages[k + 1])
               [] rowResult = "PASS" -> [rc EXCEPT !.passed = @ + 1]
               [] rowResult = "FLAKY" -> getValueOfFlakyResult(rc)
               [] OTHER -> rc

\* rowHasActivity counting infrastructure failures as activity (a mutant)
rowHasActivity_withInfra(rc) ==
    rc.failed > 0 \/ rc.passed > 0 \/ rc.flakyCount > 0 \/ rc.failedInfraCount > 0

\* the condition under which parseGrid appends the row's Result
rowHasActivity(rc) == rc.failed > 0 \/ rc.passed > 0 \/ rc.flakyCount > 0

\* StartRow with resultCounts declared outside the loop over the rows: a
\* row starts from the counters the row before it ended with (a mutant)
StartRow_countersLeak ==
    /\ pc = "parseGrid"
    /\ rowIdx < Len(RowNames)
    /\ \E cells \in [1..MaxCols -> Cells] :
          test' = [Name |-> RowNames[rowIdx + 1],
                   Results |-> Encode([k \in 1..MaxCols |-> cells[k].result]),
                   Messages |-> [k \in 1..MaxCols |-> cells[k].message]]
    /\ resultCounts' = IF scanned = <<>> THEN NewResult
                       ELSE scanned[Len(scanned)].counts
    /\ i' = -1
    /\ pc' = "scan"
    /\ UNCHANGED <<rev, columns, startTime, endTime, rowIdx, results, scanned,
                   minRuns, tab, testIdx, testByEnv, infraIssues, healthiness,
                   call, ret>>

\* for _, test := range grid.Rows: the next row is read and its counters made
StartRow ==
    /\ pc = "parseGrid"
    /\ rowIdx < Len(RowNames)
    /\ \E cells \in [1..MaxCols -> Cells] :
          test' = [Name |-> RowNames[rowIdx + 1],
                   Results |-> Encode([k \in 1..MaxCols |-> cells[k].result]),
                   Messages |-> [k \in 1..MaxCols |-> cells[k].message]]
    /\ resultCounts' = NewResult
    /\ i' = -1
    /\ pc' = "scan"
    /\ UNCHANGED <<rev, columns, startTime, endTime, rowIdx, results, scanned,
                   minRuns, tab, testIdx, testByEnv, infraIssues, healthiness,
                   call, ret>>

\* one iteration of for testResult := range result.Iter(ctx, test.Results)
ScanPosition ==
    /\ pc = "scan"
    /\ i + 1 < Len(Iter(test.Results))
    /\ i' = i + 1
    /\ resultCounts' =
           scanPosition(resultCounts, test, i + 1, columns, startTime, endTime)
    /\ UNCHANGED <<rev, pc, columns, startTime, endTime, rowIdx, test, results,
                   scanned, minRuns, tab, testIdx, testByEnv, infraIssues,
                   healthiness, call, ret>>

\* after the inner loop: the row's Result is appended when it has activity,
\* and the loop variables of this row go out of scope
EmitRow ==
    /\ pc = "scan"
    /\ i + 1 = Len(Iter(test.Results))
    /\ results' = IF rowHasActivity(resultCounts)
                  THEN Append(results, [resultCounts EXCEPT !.name = test.Name])
                  ELSE results
    /\ scanned' = Append(scanned, [name |-> test.Name, counts |-> resultCounts])
    /\ rowIdx' = rowIdx + 1
    /\ test' = NoRow
    /\ resultCounts' = NewResult
    /\ i' = -1
    /\ pc' = "parseGrid"
    /\ UNCHANGED <<rev, columns, startTime, endTime, minRuns, tab, testIdx,
                   testByEnv, infraIssues, healthiness, call, ret>>

\* return results: CalculateHealthiness hands them to
\* analyzeFlakinessFromResults, which calls naiveFlakiness with MIN_RUNS.
\* parseGrid is the same text in both revisions, so the revision is fixed
\* here, where the two first differ.
ParseReturn ==
    /\ pc = "parseGrid"
    /\ rowIdx = Len(RowNames)
    /\ rev' \in Revisions
    /\ minRuns' = MIN_RUNS
    /\ pc' = "naiveFlakiness"
    /\ UNCHANGED <<columns, startTime, endTime, rowIdx, test, i,
                   resultCounts, results, scanned, tab, testIdx,
                   testByEnv, infraIssues, healthiness, call, ret>>


----------------------------------------------------------------------------
(* JAILED_REGEX and the split of a row name into name and env *)

JAILED == <<"J", "A", "I", "L", "E", "D", " ">>

\* the literal " - \[" between the identifier and the environment label
Dash == <<" ", "-", " ", "[">>

\* part_002: [A-Za-z0-9\/_\-.:}{]
IdClass_v2 ==
    {c \in Chars : IsUpper(c) \/ IsLower(c) \/ IsDigit(c)
                      \/ c \in {"/", "_", "-", ".", ":", "}", "{"}}

\* part_002: [A-Za-z0-9\/:\-_.\s]
EnvClass_v2 ==
    {c \in Chars : IsUpper(c) \/ IsLower(c) \/ IsDigit(c)
                      \/ c \in {"/", ":", "-", "_", "."} \/ IsSpace(c)}

\* flakiness.go: [a-z0-9\/:-_] (:-_ is the range from ':' to '_')
IdClass_v1 ==
    {c \in Chars : IsLower(c) \/ IsDigit(c) \/ c = "/" \/ InRange(c, ":", "_")}

\* flakiness.go: [a-z0-9\/:-_.]
EnvClass_v1 == IdClass_v1 \cup {"."}

\* Every way the pattern
\*   (JAILED )?( <slashes> IdClass+ ) - \[( EnvClass+ )\] <tail>
\* matches inside s: [s0 |-> start of the match, j |-> 1 when the JAILED
\* group takes part, e |-> last position of the identifier group (which
\* starts at s0 + 7j), f |-> last position of the label group (which starts
\* at e + 5)].  slashes is the number of leading '/' the identifier must
\* have (the two optional ones of part_002 are members of its class, so it
\* needs none); tail is the number of \s characters that must follow the
\* bracket (the \s* of part_002 needs none).
RegexMatches(s, slashes, IdClass, EnvClass, tail) ==
    LET Es == {e \in 1..Len(s) : HasAt(s, e + 1, Dash)}
        Fs == {f \in 1..Len(s) : HasAt(s, f + 1, <<"]">>)}
    IN  { m \in [s0 : 1..Len(s), j : {0, 1}, e : Es, f : Fs] :
            /\ (m.j = 1 => HasAt(s, m.s0, JAILED))
            /\ m.e >= m.s0 + 7 * m.j + slashes
            /\ \A k \in (m.s0 + 7 * m.j)..(m.s0 + 7 * m.j + slashes - 1) : s[k] = "/"
            /\ AllIn(s, m.s0 + 7 * m.j + slashes, m.e, IdClass)
            /\ m.f >= m.e + 5
            /\ AllIn(s, m.e + 5, m.f, EnvClass)
            /\ m.f + 1 + tail <= Len(s)
            /\ AllIn(s, m.f + 2, m.f + 1 + tail, SpaceChars) }

\* FindStringSubmatch: <<>> for nil, else <<match[1], match[2], match[3]>>
\* (Go's indices; match[0] is never read) of the leftmost match; at one
\* start the greedy (JAILED )? is tried with the marker first, and the
\* greedy classes take the longest run.
FindStringSubmatch(s, slashes, IdClass, EnvClass, tail) ==
    LET ms == RegexMatches(s, slashes, IdClass, EnvClass, tail)
    IN  IF ms = {} THEN <<>>
        ELSE LET Before(x, y) ==
                     \/ x.s0 < y.s0
                     \/ x.s0 = y.s0 /\ x.j > y.j
                     \/ x.s0 = y.s0 /\ x.j = y.j /\ x.e > y.e
                     \/ x.s0 = y.s0 /\ x.j = y.j /\ x.e = y.e /\ x.f > y.f
                 m == CHOOSE x \in ms : \A y \in ms \ {x} : Before(x, y)
             IN  << IF m.j = 1 THEN JAILED ELSE <<>>,
                    Slice(s, m.s0 + 7 * m.j, m.e),
                    Slice(s, m.e + 5, m.f) >>

\* JAILED_REGEX.FindStringSubmatch of flakiness.go line 17
JAILED_REGEX_v1(s) == FindStringSubmatch(s, 2, IdClass_v1, EnvClass_v1, 1)

\* JAILED_REGEX.FindStringSubmatch of part_002 line 17
JAILED_REGEX_v2(s) == FindStringSubmatch(s, 0, IdClass_v2, EnvClass_v2, 0)

\* flakiness.go, naiveFlakiness lines 149-157: name = match[1], env = match[2]
splitName_v1(testName) ==
    LET match == JAILED_REGEX_v1(testName)
    IN  IF match # <<>> THEN <<match[1], match[2]>>
        ELSE <<testName, <<>> >>

\* part_002, getNameAndEnvFromTest: name = match[2], env = match[3]
getNameAndEnvFromTest(testName, tabName) ==
    LET match == JAILED_REGEX_v2(testName)
    IN  IF match # <<>> THEN <<match[2], match[3]>>
        ELSE <<testName, tabName>>

nameAndEnv(r, testName, tabName) ==
    IF r = "flakiness.go" THEN splitName_v1(testName)
    ELSE getNameAndEnvFromTest(testName, tabName)

----------------------------------------------------------------------------
(* calculateInfraInfo *)

\* every order in which a range loop may visit the keys of a Go map
IterationOrders(keys) ==
    {o \in [1..Cardinality(keys) -> keys] :
        \A x, y \in 1..Cardinality(keys) : x # y => o[x] # o[y]}

\* s1 < s2 as byte strings from position k on
RECURSIVE BytesLess(_, _, _)
BytesLess(s1, s2, k) ==
    IF k > Len(s1) \/ k > Len(s2) THEN Len(s1) < Len(s2)
    ELSE IF s1[k] # s2[k] THEN Ord(s1[k]) < Ord(s2[k])
    ELSE BytesLess(s1, s2, k + 1)

Digits == {"0", "1", "2", "3", "4", "5", "6", "7", "8", "9"}

\* first position >= k of s whose character is not in chars
RECURSIVE SkipWhile(_, _, _)
SkipWhile(s, k, chars) ==
    IF k <= Len(s) /\ s[k] \in chars THEN SkipWhile(s, k + 1, chars) ELSE k

\* sortorder.NaturalLess(str1, str2) from positions idx1, idx2 on (1-based):
\* digits sort before other characters, other characters by byte, runs of
\* digits by their value and then by the number of leading zeros.
RECURSIVE NaturalLessFrom(_, _, _, _)
NaturalLessFrom(str1, str2, idx1, idx2) ==
    IF idx1 > Len(str1) \/ idx2 > Len(str2)
    THEN Len(str1) - idx1 < Len(str2) - idx2
    ELSE LET c1 == str1[idx1]
             c2 == str2[idx2]
             dig1 == IsDigit(c1)
             dig2 == IsDigit(c2)
         IN  IF dig1 # dig2 THEN dig1
             ELSE IF ~dig1
                  THEN (IF c1 # c2 THEN Ord(c1) < Ord(c2)
                        ELSE NaturalLessFrom(str1, str2, idx1 + 1, idx2 + 1))
             ELSE LET nonZero1 == SkipWhile(str1, idx1, {"0"})
                      nonZero2 == SkipWhile(str2, idx2, {"0"})
                      end1 == SkipWhile(str1, nonZero1, Digits)
                      end2 == SkipWhile(str2, nonZero2, Digits)
                      nr1 == Slice(str1, nonZero1, end1 - 1)
                      nr2 == Slice(str2, nonZero2, end2 - 1)
                  IN  IF Len(nr1) # Len(nr2) THEN Len(nr1) < Len(nr2)
                      ELSE IF nr1 # nr2 THEN BytesLess(nr1, nr2, 1)
                      ELSE IF nonZero1 - idx1 # nonZero2 - idx2
                           THEN nonZero1 - idx1 < nonZero2 - idx2
                      ELSE NaturalLessFrom(str1, str2, end1, end2)

NaturalLess(str1, str2) == NaturalLessFrom(str1, str2, 1, 1)

\* the comparator handed to sort.Slice in part_002: count descending, then
\* cause ascending in natural order
itemLess(x, y) ==
    IF x.i > y.i THEN TRUE
    ELSE IF x.i < y.i THEN FALSE
    ELSE NaturalLess(x.s, y.s)

\* sort.Slice(items, less) for a less that orders the items totally (the
\* keys of a map are distinct): the only sorted arrangement
RECURSIVE sortSlice(_)
sortSlice(items) ==
    IF items = {} THEN <<>>
    ELSE LET first == CHOOSE x \in items : \A y \in items \ {x} : itemLess(x, y)
         IN  <<first>> \o sortSlice(items \ {first})

\* decimal digits of a natural number
RECURSIVE Itoa(_)
Itoa(n) ==
    IF n < 10 THEN <<Ascii[17 + n]>>
    ELSE Itoa(n \div 10) \o <<Ascii[17 + (n % 10)]>>

\* fmt.Sprintf("%.2f", n/d) of a finite non-negative quotient: rounded to
\* the nearest hundredth, an exact tie to the even one
Sprintf2f(x) ==
    LET q == (100 * x[1]) \div x[2]
        r == (100 * x[1]) % x[2]
        h == IF 2 * r > x[2] \/ (2 * r = x[2] /\ q % 2 = 1) THEN q + 1 ELSE q
    IN  Itoa(h \div 100) \o <<".">> \o Itoa((h % 100) \div 10) \o Itoa(h % 10)

\* key + fmt.Sprintf(" %.2f%% ", 100*float64(v)/float64(failedCount))
renderIssue(key, v, failedCount) ==
    key \o <<" ">> \o Sprintf2f(FDiv(FromInt(100 * v), FromInt(failedCount)))
        \o <<"%", " ">>

\* strings.Join(result, "")
RECURSIVE Join(_)
Join(parts) == IF parts = <<>> THEN <<>> ELSE Head(parts) \o Join(Tail(parts))

\* strings.TrimSpace
TrimSpace(s) ==
    LET keep == {k \in 1..Len(s) : ~IsSpace(s[k])}
    IN  IF keep = {} THEN <<>>
        ELSE Slice(s, CHOOSE k \in keep : \A x \in keep : k <= x,
                      CHOOSE k \in keep : \A x \in keep : k >= x)

\* flakiness.go: the sorted items are never read; the result ranges over the
\* map itself, so every iteration order of issues gives a possible return
\* value.  The set of the possible return values.
calculateInfraInfo_v1(issues, failedCount) ==
    IF Cardinality(DOMAIN issues) > 0 /\ failedCount > 0
    THEN { TrimSpace(Join([k \in 1..Len(o) |->
                              renderIssue(o[k], issues[o[k]], failedCount)])) :
             o \in IterationOrders(DOMAIN issues) }
    ELSE { <<>> }

\* part_002: the items are sorted and the result ranges over the sorted
\* items.  The return value.
calculateInfraInfo_v2(issues, failedCount) ==
    IF Cardinality(DOMAIN issues) > 0 /\ failedCount > 0
    THEN LET items == sortSlice({[s |-> k, i |-> issues[k]] : k \in DOMAIN issues})
         IN  TrimSpace(Join([k \in 1..Len(items) |->
                                renderIssue(items[k].s, items[k].i, failedCount)]))
    ELSE <<>>

\* the possible return values of calculateInfraInfo in revision r
calculateInfraInfo(r, issues, failedCount) ==
    IF r = "flakiness.go" THEN calculateInfraInfo_v1(issues, failedCount)
    ELSE { calculateInfraInfo_v2(issues, failedCount) }

----------------------------------------------------------------------------
(* calculateNaiveFlakiness *)

\* TestInfo{}
ZeroTestInfo ==
    [name |-> <<>>, env |-> <<>>, totalRuns |-> 0, totalRunsWithInfra |-> 0,
     passedRuns |-> 0, failedRuns |-> 0, failedInfraRuns |-> 0,
     flakyRuns |-> 0, flakiness |-> FromInt(0), infraInfo |-> <<>>]

\* calculateNaiveFlakiness rejecting totalCount <= minRuns (a mutant)
calculateNaiveFlakiness_lessEq(r, t, min) ==
    LET totalCount == t.passed + t.failed
    IN  IF totalCount <= min
        THEN { [testInfo |-> ZeroTestInfo, success |-> FALSE] }
        ELSE { [testInfo |->
                   [name |-> <<>>, env |-> <<>>,
                    flakiness |-> FDiv(FromInt(100 * t.failed), FromInt(totalCount)),
                    totalRuns |-> totalCount,
                    totalRunsWithInfra |-> totalCount + t.failedInfraCount,
                    passedRuns |-> t.passed,
                    failedRuns |-> t.failed,
                    failedInfraRuns |-> t.failedInfraCount,
                    flakyRuns |-> t.flakyCount,
                    infraInfo |-> infraInfo],
                success |-> TRUE] :
               infraInfo \in calculateInfraInfo(r, t.infraFailures, t.failedInfraCount) }

\* the possible returns [testInfo, success] in revision r
calculateNaiveFlakiness(r, t, min) ==
    LET failedCount == t.failed
        totalCount == t.passed + t.failed
        totalCountWithInfra == totalCount + t.failedInfraCount
    IN  IF totalCount < min
        THEN { [testInfo |-> ZeroTestInfo, success |-> FALSE] }
        ELSE { [testInfo |->
                   [name |-> <<>>, env |-> <<>>,
                    flakiness |-> FDiv(FromInt(100 * failedCount), FromInt(totalCount)),
                    totalRuns |-> totalCount,
                    totalRunsWithInfra |-> totalCountWithInfra,
                    passedRuns |-> t.passed,
                    failedRuns |-> t.failed,
                    failedInfraRuns |-> t.failedInfraCount,
                    flakyRuns |-> t.flakyCount,
                    infraInfo |-> infraInfo],
                success |-> TRUE] :
               infraInfo \in calculateInfraInfo(r, t.infraFailures, t.failedInfraCount) }

----------------------------------------------------------------------------
(* naiveFlakiness *)

\* for errorType, errorCount := range test.infraFailures {
\*     infraIssues[test.name+"-"+errorType] += errorCount }
\* (the keys written are distinct, so the iteration order does not matter)
RECURSIVE addInfraIssues(_, _, _, _)
addInfraIssues(issues, rawName, infraFailures, todo) ==
    IF todo = {} THEN issues
    ELSE LET errorType == CHOOSE k \in todo : TRUE
         IN  addInfraIssues(
                 MapAdd(issues, rawName \o <<"-">> \o errorType,
                        infraFailures[errorType]),
                 rawName, infraFailures, todo \ {errorType})

\* testByEnv[name] = testInfo
MapPut(m, k, v) == [x \in DOMAIN m \cup {k} |-> IF x = k THEN v ELSE m[x]]

\* if currTestInfo, exists := testByEnv[name];
\*     !exists || currTestInfo.flakiness < testInfo.flakiness { ... }
mergeTestInfo(byEnv, testInfo) ==
    IF testInfo.name \notin DOMAIN byEnv
       \/ FLess(byEnv[testInfo.name].flakiness, testInfo.flakiness)
    THEN MapPut(byEnv, testInfo.name, testInfo)
    ELSE byEnv

\* naiveLoopBody adding to infraIssues only after the runs are checked, so
\* that a skipped row adds nothing (a mutant)
naiveLoopBody_issuesAfterCheck(r, byEnv, issues, t, min, tabN) ==
    LET ne == nameAndEnv(r, t.name, tabN)
        issuesAfter == addInfraIssues(issues, t.name, t.infraFailures,
                                      DOMAIN t.infraFailures)
    IN  { IF ~c.success THEN [infraIssues |-> issues, testByEnv |-> byEnv]
          ELSE [infraIssues |-> issuesAfter,
                testByEnv |->
                    mergeTestInfo(byEnv,
                        [c.testInfo EXCEPT !.name = ne[1], !.env = ne[2]])] :
          c \in calculateNaiveFlakiness(r, t, min) }

\* the body of for _, test := range results: the possible values of
\* infraIssues and testByEnv after it (infraIssues is added to before the
\* runs are checked, so a row with too few runs is counted there all the same)
naiveLoopBody(r, byEnv, issues, t, min, tabN) ==
    LET ne == nameAndEnv(r, t.name, tabN)
        issuesAfter == addInfraIssues(issues, t.name, t.infraFailures,
                                      DOMAIN t.infraFailures)
    IN  { [infraIssues |-> issuesAfter,
           testByEnv |->
               IF ~c.success THEN byEnv
               ELSE mergeTestInfo(byEnv,
                        [c.testInfo EXCEPT !.name = ne[1], !.env = ne[2]])] :
          c \in calculateNaiveFlakiness(r, t, min) }

\* one iteration of for _, test := range results
NaiveStep ==
    /\ pc = "naiveFlakiness"
    /\ testIdx < Len(results)
    /\ \E after \in naiveLoopBody(rev, testByEnv, infraIssues,
                                  results[testIdx + 1], minRuns, tab) :
          /\ infraIssues' = after.infraIssues
          /\ testByEnv' = after.testByEnv
    /\ testIdx' = testIdx + 1
    /\ UNCHANGED <<rev, pc, columns, startTime, endTime, rowIdx, test, i,
                   resultCounts, results, scanned, minRuns, tab, healthiness,
                   call, ret>>

----------------------------------------------------------------------------
(* createHealthiness *)

\* sort.Sort(sort.Reverse(sort.IntSlice(keys))): the keys in descending order
RECURSIVE sortReverse(_)
sortReverse(keys) ==
    IF keys = {} THEN <<>>
    ELSE LET max == CHOOSE k \in keys : \A x \in keys : k >= x
         IN  <<max>> \o sortReverse(keys \ {max})

\* flakiness.go lines 193-198: for threshold := range keys takes the
\* indices 0, 1, 2, ... of the sorted keys, not the keys
newBuckets_v1 ==
    LET keys == sortReverse(HEALTHY_RANGE)
    IN  [k \in 1..Len(keys) |-> [threshold |-> FromInt(k - 1), tests |-> 0]]

\* part_002 lines 208-213: for _, threshold := range keys
newBuckets_v2 ==
    LET keys == sortReverse(HEALTHY_RANGE)
    IN  [k \in 1..Len(keys) |-> [threshold |-> FromInt(keys[k]), tests |-> 0]]

\* flakiness.go lines 204-208: bucket is a copy of the slice element, so
\* bucket.tests += 1 changes no bucket of healthiness.flakyBuckets
countInBuckets_v1(buckets, flakiness) == buckets

\* part_002 lines 219-224: the first bucket whose threshold the flakiness
\* exceeds is incremented, and the loop breaks
countInBuckets_v2(buckets, flakiness) ==
    LET hit == {k \in 1..Len(buckets) : FLess(buckets[k].threshold, flakiness)}
    IN  IF hit = {} THEN buckets
        ELSE LET first == CHOOSE k \in hit : \A x \in hit : k <= x
             IN  [buckets EXCEPT ![first].tests = @ + 1]

newBuckets(r) == IF r = "flakiness.go" THEN newBuckets_v1 ELSE newBuckets_v2

countInBuckets(r, buckets, flakiness) ==
    IF r = "flakiness.go" THEN countInBuckets_v1(buckets, flakiness)
    ELSE countInBuckets_v2(buckets, flakiness)

\* the loop for _, testInfo := range testByEnv over the tests still to visit:
\* [tests, sum, buckets] after it
RECURSIVE visitTests(_, _, _, _)
visitTests(r, acc, byEnv, order) ==
    IF order = <<>> THEN acc
    ELSE LET testInfo == byEnv[Head(order)]
         IN  visitTests(r,
                 [tests |-> Append(acc.tests, testInfo),
                  sum |-> FAdd(acc.sum, testInfo.flakiness),
                  buckets |-> countInBuckets(r, acc.buckets, testInfo.flakiness)],
                 byEnv, Tail(order))

\* createHealthiness dividing the sum by totalTests even when there is no
\* test (a mutant)
createHealthiness_alwaysDivides(r, startDate, endDate, res, byEnv, issues, order) ==
    LET v == visitTests(r, [tests |-> <<>>, sum |-> FromInt(0),
                            buckets |-> newBuckets(r)], byEnv, order)
        totalTests == Len(v.tests)
    IN  [startDate |-> startDate,
         endDate |-> endDate,
         tests |-> v.tests,
         totalTests |-> totalTests,
         totalJailedTests |-> 0,
         averageFlakiness |-> FDiv(v.sum, FromInt(totalTests)),
         flakyBuckets |-> v.buckets,
         infraIssues |-> issues,
         totalConfigs |-> Len(res)]

\* createHealthiness taking totalConfigs from the merged tests, not from the
\* results list (a mutant)
createHealthiness_configsAfterMerge(r, startDate, endDate, res, byEnv, issues, order) ==
    LET v == visitTests(r, [tests |-> <<>>, sum |-> FromInt(0),
                            buckets |-> newBuckets(r)], byEnv, order)
        totalTests == Len(v.tests)
    IN  [startDate |-> startDate,
         endDate |-> endDate,
         tests |-> v.tests,
         totalTests |-> totalTests,
         totalJailedTests |-> 0,
         averageFlakiness |->
             IF totalTests > 0 THEN FDiv(v.sum, FromInt(totalTests))
             ELSE FromInt(0),
         flakyBuckets |-> v.buckets,
         infraIssues |-> issues,
         totalConfigs |-> totalTests]

\* createHealthiness when the range loop visits testByEnv in the given order
createHealthiness(r, startDate, endDate, res, byEnv, issues, order) ==
    LET v == visitTests(r, [tests |-> <<>>, sum |-> FromInt(0),
                            buckets |-> newBuckets(r)], byEnv, order)
        totalTests == Len(v.tests)
    IN  [startDate |-> startDate,
         endDate |-> endDate,
         tests |-> v.tests,
         totalTests |-> totalTests,
         totalJailedTests |-> 0,
         averageFlakiness |->
             IF totalTests > 0 THEN FDiv(v.sum, FromInt(totalTests))
             ELSE FromInt(0),
         flakyBuckets |-> v.buckets,
         infraIssues |-> issues,
         totalConfigs |-> Len(res)]

\* naiveFlakiness after its loop: healthiness := createHealthiness(...)
CreateHealthiness ==
    /\ pc = "naiveFlakiness"
    /\ testIdx = Len(results)
    /\ \E order \in IterationOrders(DOMAIN testByEnv) :
          healthiness' = createHealthiness(rev, startTime, endTime, results,
                                           testByEnv, infraIssues, order)
    /\ pc' = "done"
    /\ UNCHANGED <<rev, columns, startTime, endTime, rowIdx, test, i,
                   resultCounts, results, scanned, minRuns, tab, testIdx,
                   testByEnv, infraIssues, call, ret>>

----------------------------------------------------------------------------
(* CalculateHealthiness: parseGrid, then naiveFlakiness with MIN_RUNS *)

tabName == <<"t", "a", "b", "1">>

Init ==
    /\ rev = "both"
    /\ pc = "parseGrid"
    /\ columns \in [1..MaxCols -> Times]
    /\ \E w \in Windows : startTime = w[1] /\ endTime = w[2]
    /\ rowIdx = 0
    /\ test = NoRow
    /\ i = -1
    /\ resultCounts = NewResult
    /\ results = <<>>
    /\ scanned = <<>>
    /\ minRuns = MIN_RUNS
    /\ tab = tabName
    /\ testIdx = 0
    /\ testByEnv = EmptyMap
    /\ infraIssues = EmptyMap
    /\ healthiness = <<>>
    /\ call = <<>>
    /\ ret = <<>>

Next ==
    \/ StartRow
    \/ ScanPosition
    \/ EmitRow
    \/ ParseReturn
    \/ NaiveStep
    \/ CreateHealthiness

Spec == Init /\ [][Next]_vars

----------------------------------------------------------------------------
(* naiveFlakiness called with a results list of its own *)

\* number of Results in the list handed to naiveFlakiness
MaxResults == 2

T1E1 == <<"/", "/", "t", "1", " ", "-", " ", "[", "e", "1", "]", " ">>
T1E2 == <<"/", "/", "t", "1", " ", "-", " ", "[", "e", "2", "]">>
Bleh == <<"b", "l", "e", "h">>

NaiveNames == {T1E1, T1E2, Bleh}

\* passed, failed, flakyCount of a Result: flakiness NaN, 0, 50, 100
CountCases ==
    { [passed |-> 0, failed |-> 0, flakyCount |-> 1],
      [passed |-> 1, failed |-> 0, flakyCount |-> 0],
      [passed |-> 1, failed |-> 1, flakyCount |-> 1],
      [passed |-> 0, failed |-> 1, flakyCount |-> 0] }

InfraCases == { EmptyMap, (msgInfra1 :> 2) @@ (msgInfra2 :> 1) }

RECURSIVE SumValues(_, _)
SumValues(m, keys) ==
    IF keys = {} THEN 0
    ELSE LET k == CHOOSE k \in keys : TRUE
         IN  m[k] + SumValues(m, keys \ {k})

\* a Result as parseGrid leaves it: failedInfraCount is the sum of
\* infraFailures, averageFlakiness is 50 once a run was flaky
MakeResult(name, passed, failed, flakyCount, infraFailures) ==
    [name |-> name, passed |-> passed, failed |-> failed,
     flakyCount |-> flakyCount,
     averageFlakiness |-> IF flakyCount > 0 THEN DEFAULT_FLAKINESS ELSE FromInt(0),
     failedInfraCount |-> SumValues(infraFailures, DOMAIN infraFailures),
     infraFailures |-> infraFailures]

NaiveResults ==
    { MakeResult(n, c.passed, c.failed, c.flakyCount, m) :
        n \in NaiveNames, c \in CountCases, m \in InfraCases }

MinRunsCases == {0, 2}

\* the variables of parseGrid, when parseGrid does not run
ParseIdle ==
    /\ columns = <<>>
    /\ startTime = 0
    /\ endTime = 2
    /\ rowIdx = 0
    /\ test = NoRow
    /\ i = -1
    /\ resultCounts = NewResult
    /\ scanned = <<>>

\* the variables of a function applied on its own, when none is
CallIdle == call = <<>> /\ ret = <<>>

InitNaive ==
    /\ rev \in Revisions
    /\ pc = "naiveFlakiness"
    /\ ParseIdle
    /\ results \in UNION {[1..n -> NaiveResults] : n \in 0..MaxResults}
    /\ minRuns \in MinRunsCases
    /\ tab = tabName
    /\ testIdx = 0
    /\ testByEnv = EmptyMap
    /\ infraIssues = EmptyMap
    /\ healthiness = <<>>
    /\ CallIdle

NextNaive ==
    \/ NaiveStep
    \/ CreateHealthiness

SpecNaive == InitNaive /\ [][NextNaive]_vars

----------------------------------------------------------------------------
(* createHealthiness called with a testByEnv map of its own *)

\* number of entries of the testByEnv map handed to createHealthiness
MaxTests == 2

CreateNames == {<<"a">>, <<"b">>, <<"c">>}

\* flakiness values on both sides of every threshold, and NaN
FlakinessCases ==
    { NaN, FromInt(0), FromInt(2), FromInt(3), Rat(7, 2), FromInt(10),
      FromInt(15), FromInt(20), FromInt(50), FromInt(100) }

InitCreate ==
    /\ rev \in Revisions
    /\ pc = "naiveFlakiness"
    /\ ParseIdle
    /\ results \in {<<>>, <<MakeResult(Bleh, 1, 1, 0, EmptyMap)>>}
    /\ minRuns = MIN_RUNS
    /\ tab = tabName
    /\ testIdx = Len(results)
    /\ \E names \in SUBSET CreateNames :
          /\ Cardinality(names) <= MaxTests
          /\ \E f \in [names -> FlakinessCases] :
                testByEnv = [n \in names |->
                                [ZeroTestInfo EXCEPT !.name = n, !.flakiness = f[n]]]
    /\ infraIssues = EmptyMap
    /\ healthiness = <<>>
    /\ CallIdle

NextCreate == CreateHealthiness

SpecCreate == InitCreate /\ [][NextCreate]_vars

----------------------------------------------------------------------------
(* the functions applied on their own *)

\* the variables of parseGrid and naiveFlakiness, when neither runs
PipelineIdle ==
    /\ ParseIdle
    /\ results = <<>>
    /\ minRuns = MIN_RUNS
    /\ tab = tabName
    /\ testIdx = 0
    /\ testByEnv = EmptyMap
    /\ infraIssues = EmptyMap
    /\ healthiness = <<>>

Return(values) ==
    /\ pc = "call"
    /\ ret' \in values
    /\ pc' = "return"
    /\ UNCHANGED <<rev, columns, startTime, endTime, rowIdx, test, i,
                   resultCounts, results, scanned, minRuns, tab, testIdx,
                   testByEnv, infraIssues, healthiness, call>>

\* largest count of one cause in an issues map
MaxCount == 2

msgInfra10 == <<"i", "n", "f", "r", "a", "1", "0">>

IssueKeys == {msgInfra2, msgInfra10, <<"i", "n", "f", "r", "a", "1">>}

\* failedCount: none, fewer than a count, the test's 10
FailedCounts == {0, 3, 10}

InitInfra ==
    /\ rev \in Revisions
    /\ pc = "call"
    /\ PipelineIdle
    /\ \E keys \in SUBSET IssueKeys :
          \E m \in [keys -> 1..MaxCount] :
             \E n \in FailedCounts : call = [issues |-> m, failedCount |-> n]
    /\ ret = <<>>

CallCalculateInfraInfo ==
    Return(calculateInfraInfo(rev, call.issues, call.failedCount))

SpecInfra == InitInfra /\ [][CallCalculateInfraInfo]_vars

\* names put together from a marker, an identifier, a separator, a label
\* and an end
NameParts ==
    << { <<>>, JAILED, <<"x", " ">> },
       { <<"/", "/", "t", "1">>, <<"t", ".", "1">>, <<"/", "/", "T", "_", "1">> },
       { Dash, <<" ", "[">> },
       { <<"e", "1">>, <<"e", " ", "1">>, <<"e", "!">> },
       { <<"]">>, <<"]", " ">>, <<>> } >>

TestNames ==
    { p[1] \o p[2] \o p[3] \o p[4] \o p[5] :
        p \in NameParts[1] \X NameParts[2] \X NameParts[3] \X NameParts[4] \X NameParts[5] }
    \cup { Bleh }

InitName ==
    /\ rev \in Revisions
    /\ pc = "call"
    /\ PipelineIdle
    /\ \E n \in TestNames : call = [testName |-> n, tabName |-> <<"T">>]
    /\ ret = <<>>

CallNameAndEnv == Return({ nameAndEnv(rev, call.testName, call.tabName) })

SpecName == InitName /\ [][CallNameAndEnv]_vars

\* largest passed and failed count of a Result
MaxRuns == 2

InitCalc ==
    /\ rev \in Revisions
    /\ pc = "call"
    /\ PipelineIdle
    /\ \E p \in 0..MaxRuns, f \in 0..MaxRuns, fl \in 0..1, m \in InfraCases :
          \E min \in {-1, 0, 1, 2, 1000} :
             call = [test |-> MakeResult(<<>>, p, f, fl, m), minRuns |-> min]
    /\ ret = <<>>

CallCalculateNaiveFlakiness ==
    Return(calculateNaiveFlakiness(rev, call.test, call.minRuns))

SpecCalc == InitCalc /\ [][CallCalculateNaiveFlakiness]_vars

----------------------------------------------------------------------------
(* Properties of parseGrid *)

\* a message that is a bare token of word characters
IsInfraMessage(m) == m # <<>> /\ \A k \in 1..Len(m) : IsWordChar(m[k])

\* the positions (1-based) of the row being scanned that the scan has visited,
\* lie in the window and hold the given result
VisitedInWindow(result) ==
    {k \in 1..(i + 1) :
        /\ startTime <= columns[k] /\ columns[k] <= endTime
        /\ Iter(test.Results)[k] = result}

\* C1: at every point of the scan of a row (hence in the Result built for
\* it) passed is the number of in-window PASS positions, flakyCount that of
\* the in-window FLAKY positions, failed that of the in-window FAIL positions
\* with a genuine message, failedInfraCount that of the in-window FAIL
\* positions with an infrastructure message, and infraFailures[m] the number
\* of those carrying m; positions outside the window, NO_RESULT and RUNNING
\* positions are counted nowhere.
C1_CountsMatchGrid ==
    pc = "scan" =>
        LET genuine == {k \in VisitedInWindow("FAIL") : ~IsInfraMessage(test.Messages[k])}
            infra == {k \in VisitedInWindow("FAIL") : IsInfraMessage(test.Messages[k])}
        IN  /\ Len(Iter(test.Results)) = Len(columns)
            /\ Len(test.Messages) = Len(columns)
            /\ resultCounts.passed = Cardinality(VisitedInWindow("PASS"))
            /\ resultCounts.flakyCount = Cardinality(VisitedInWindow("FLAKY"))
            /\ resultCounts.failed = Cardinality(genuine)
            /\ resultCounts.failedInfraCount = Cardinality(infra)
            /\ DOMAIN resultCounts.infraFailures = {test.Messages[k] : k \in infra}
            /\ \A m \in DOMAIN resultCounts.infraFailures :
                  resultCounts.infraFailures[m] =
                      Cardinality({k \in infra : test.Messages[k] = m})

\* a row is scanned to its end with one in-window pass, one infrastructure
\* failure outside the window left out and nothing else counted
C1_Witness ==
    /\ pc = "scan"
    /\ i + 1 = Len(columns)
    /\ \E k \in 1..Len(columns) :
          /\ columns[k] > endTime
          /\ Iter(test.Results)[k] = "FAIL"
          /\ IsInfraMessage(test.Messages[k])
    /\ resultCounts.passed = 1
    /\ resultCounts.failedInfraCount = 0

\* the Results of the scanned rows that have passed + failed + flakyCount > 0,
\* each under its row's name, in the order of the rows
RECURSIVE ActiveRows(_)
ActiveRows(rows) ==
    IF rows = <<>> THEN <<>>
    ELSE LET c == Head(rows).counts
             rest == ActiveRows(Tail(rows))
         IN  IF c.passed + c.failed + c.flakyCount > 0
             THEN <<[c EXCEPT !.name = Head(rows).name]>> \o rest
             ELSE rest

\* C2: the output of parseGrid holds, in grid row order, exactly one Result
\* (under the row's name) for each scanned row with passed + failed +
\* flakyCount > 0 and nothing for any other row.
C2_OnlyActiveRowsEmitted ==
    /\ Len(scanned) = rowIdx
    /\ \A k \in 1..Len(scanned) : scanned[k].name = RowNames[k]
    /\ results = ActiveRows(scanned)

\* the first row had only an infrastructure failure and is absent, the
\* second row is present under its name
C2_Witness ==
    /\ Len(scanned) = 2
    /\ scanned[1].counts.failedInfraCount > 0
    /\ Len(results) = 1
    /\ results[1].name = RowNames[2]

----------------------------------------------------------------------------
(* Properties of the name split *)

Letters == {c \in Chars : IsUpper(c) \/ IsLower(c)}

\* the characters of an identifier: letters, digits, slashes, underscores,
\* hyphens, colons, dots, braces
PatternIdChars == Letters \cup Digits \cup {"/", "_", "-", ":", ".", "{", "}"}

\* the characters of an environment label: letters, digits, slashes, colons,
\* hyphens, underscores, dots, whitespace
PatternEnvChars == Letters \cup Digits \cup {"/", ":", "-", "_", ".", " "}

\* <<a, e, f>>: n holds an identifier at a..e, then " - [", then a label at
\* e+5..f, then "]"
PatternOccurrences(n) ==
    LET Es == {e \in 1..Len(n) : HasAt(n, e + 1, Dash)}
        Fs == {f \in 1..Len(n) : HasAt(n, f + 1, <<"]">>)}
    IN  { d \in (1..Len(n)) \X Es \X Fs :
            /\ d[1] <= d[2]
            /\ AllIn(n, d[1], d[2], PatternIdChars)
            /\ d[3] >= d[2] + 5
            /\ AllIn(n, d[2] + 5, d[3], PatternEnvChars) }

\* the name and env the composite pattern gives for row name n under tab T:
\* the identifier and the label of its first occurrence in n (the identifier
\* taken as far to the left as it goes; a JAILED marker before it is not
\* part of it, a space is no identifier character), else n and T
ExpectedSplit(n, T) ==
    LET occ == PatternOccurrences(n)
    IN  IF occ = {} THEN <<n, T>>
        ELSE LET d == CHOOSE d \in occ : \A x \in occ : d[1] <= x[1]
             IN  <<Slice(n, d[1], d[2]), Slice(n, d[2] + 5, d[3])>>

\* C7: a row name that matches the composite pattern is split into the
\* captured identifier (without the JAILED marker) and the captured
\* environment label; one that does not match keeps its raw name and gets
\* the tab name as env.
C7_NameAndEnv ==
    pc = "return" => ret = ExpectedSplit(call.testName, call.tabName)

\* what holds of C7 in the revision of src/unnamed/part_002
C7_NameAndEnv_part_002 ==
    (pc = "return" /\ rev = "part_002") =>
        ret = ExpectedSplit(call.testName, call.tabName)

----------------------------------------------------------------------------
(* Properties of naiveFlakiness *)

\* the rows that pass the minimum-runs check
PassingRows == {k \in 1..Len(results) : results[k].passed + results[k].failed >= minRuns}

RowBaseName(k) == ExpectedSplit(results[k].name, tab)[1]

\* 100 * failed / (passed + failed) of row k
RowFlakiness(k) ==
    Rat(100 * results[k].failed, results[k].passed + results[k].failed)

\* the passing rows of base name b whose flakiness is at least that of every
\* passing row of that base name
HighestRows(b) ==
    {k \in PassingRows :
        /\ RowBaseName(k) = b
        /\ \A x \in PassingRows :
              RowBaseName(x) = b =>
                  \/ FLess(RowFlakiness(x), RowFlakiness(k))
                  \/ RowFlakiness(x) = RowFlakiness(k)}

\* TestInfo t is the one computed from row k (its infraInfo aside)
ComputedFromRow(t, k) ==
    /\ t.name = RowBaseName(k)
    /\ t.env = ExpectedSplit(results[k].name, tab)[2]
    /\ t.flakiness = RowFlakiness(k)
    /\ t.totalRuns = results[k].passed + results[k].failed
    /\ t.totalRunsWithInfra = t.totalRuns + results[k].failedInfraCount
    /\ t.passedRuns = results[k].passed
    /\ t.failedRuns = results[k].failed
    /\ t.failedInfraRuns = results[k].failedInfraCount
    /\ t.flakyRuns = results[k].flakyCount

\* C3: the report holds exactly one TestInfo per distinct base name among
\* the rows that pass the minimum-runs check, computed from the earliest of
\* the rows of that base name with the highest flakiness.
C3_WorstRowPerBaseName ==
    pc = "done" =>
        LET bases == {RowBaseName(k) : k \in PassingRows}
            tests == healthiness.tests
        IN  /\ Len(tests) = Cardinality(bases)
            /\ \A b \in bases :
                  /\ HighestRows(b) # {}
                  /\ \E x \in 1..Len(tests) :
                        ComputedFromRow(tests[x],
                            CHOOSE k \in HighestRows(b) :
                                \A y \in HighestRows(b) : k <= y)

\* what holds of C3 in the revision of src/unnamed/part_002: the same, for
\* results lists in which every passing row has a run (no flakiness is NaN)
C3_WorstRowPerBaseName_part_002 ==
    (rev = "part_002" /\ \A k \in PassingRows : ~IsNaN(RowFlakiness(k)))
        => C3_WorstRowPerBaseName

RECURSIVE SumOver(_, _)
SumOver(f, keys) ==
    IF keys = {} THEN 0
    ELSE LET k == CHOOSE k \in keys : TRUE
         IN  f[k] + SumOver(f, keys \ {k})

\* the sum of infraFailures[c] over the rows 1..upTo whose raw name is n
InfraTotal(n, c, upTo) ==
    LET rows == {k \in 1..upTo :
                    results[k].name = n /\ c \in DOMAIN results[k].infraFailures}
    IN  SumOver([k \in rows |-> results[k].infraFailures[c]], rows)

\* C8: after any number of rows, and in the report, infraIssues has exactly
\* the keys n + "-" + c of the raw row names n and causes c seen, each with
\* the sum of infraFailures[c] over the rows named n, rows skipped for
\* insufficient runs included.
C8_InfraIssuesTotals ==
    pc \in {"naiveFlakiness", "done"} =>
        /\ DOMAIN infraIssues =
               UNION { {results[k].name \o <<"-">> \o c :
                           c \in DOMAIN results[k].infraFailures} :
                       k \in 1..testIdx }
        /\ \A k \in 1..testIdx : \A c \in DOMAIN results[k].infraFailures :
              infraIssues[results[k].name \o <<"-">> \o c] =
                  InfraTotal(results[k].name, c, testIdx)
        /\ (pc = "done" => testIdx = Len(results) /\ healthiness.infraIssues = infraIssues)

\* two rows of one name, both skipped for insufficient runs, both with
\* infrastructure failures: no TestInfo, and their failures added up
C8_Witness ==
    /\ pc = "done"
    /\ Len(results) = 2
    /\ results[1].name = T1E2 /\ results[2].name = T1E2
    /\ PassingRows = {}
    /\ healthiness.tests = <<>>
    /\ (T1E2 \o <<"-">> \o msgInfra1) \in DOMAIN healthiness.infraIssues
    /\ healthiness.infraIssues[T1E2 \o <<"-">> \o msgInfra1] = 4

----------------------------------------------------------------------------
(* Properties of calculateNaiveFlakiness *)

\* C9: calculateNaiveFlakiness returns not-ok with a zero-valued TestInfo
\* exactly when passed + failed < minRuns; otherwise ok with totalRuns =
\* passed + failed, totalRunsWithInfra = totalRuns + failedInfraCount, the
\* counts copied, empty name and env, and flakiness = 100*failed/totalRuns
\* (the float64 quotient: NaN when totalRuns is 0).
C9_CalculateNaiveFlakiness ==
    pc = "return" =>
        LET t == call.test
            info == ret.testInfo
            total == t.passed + t.failed
        IN  /\ ret.success <=> ~(total < call.minRuns)
            /\ ~ret.success => info = ZeroTestInfo
            /\ ret.success =>
                  /\ info.totalRuns = total
                  /\ info.totalRunsWithInfra = total + t.failedInfraCount
                  /\ info.passedRuns = t.passed
                  /\ info.failedRuns = t.failed
                  /\ info.failedInfraRuns = t.failedInfraCount
                  /\ info.flakyRuns = t.flakyCount
                  /\ info.name = <<>> /\ info.env = <<>>
                  /\ (total > 0 =>
                        /\ info.flakiness[2] > 0
                        /\ info.flakiness[1] * total = 100 * t.failed * info.flakiness[2])
                  /\ (total = 0 => IsNaN(info.flakiness))

\* a Result one run short of minRuns is rejected
C9_Witness ==
    /\ pc = "return"
    /\ ~ret.success
    /\ call.test.passed + call.test.failed = 1
    /\ call.minRuns = 2

\* a number between 0 and 100
IsPercentage(x) == x[2] > 0 /\ 0 <= x[1] /\ x[1] <= 100 * x[2]

\* C10: every TestInfo.flakiness and the averageFlakiness of the report of
\* CalculateHealthiness is a defined number in [0, 100], never NaN (a row with
\* passed + failed = 0 gets flakiness 0).
C10_FlakinessDefined ==
    pc = "done" =>
        /\ \A k \in 1..Len(healthiness.tests) :
              IsPercentage(healthiness.tests[k].flakiness)
        /\ IsPercentage(healthiness.averageFlakiness)

----------------------------------------------------------------------------
(* Properties of createHealthiness *)

\* C4: each bucket counts the TestInfos whose flakiness exceeds its
\* threshold and no higher threshold of the report; so every TestInfo is
\* counted in the first bucket whose threshold it exceeds, or in none.
C4_OneBucketPerTest ==
    pc = "done" =>
        LET buckets == healthiness.flakyBuckets
        IN  \A k \in 1..Len(buckets) :
               buckets[k].tests =
                   Cardinality(
                       {n \in DOMAIN testByEnv :
                           /\ FLess(buckets[k].threshold, testByEnv[n].flakiness)
                           /\ \A j \in 1..Len(buckets) :
                                 FLess(buckets[k].threshold, buckets[j].threshold)
                                     => ~FLess(buckets[j].threshold, testByEnv[n].flakiness)})

\* what holds of C4 in the revision of src/unnamed/part_002
C4_OneBucketPerTest_part_002 == rev = "part_002" => C4_OneBucketPerTest

\* C5: the report has exactly four buckets, with the thresholds 20, 10, 3, 0
\* in that order.
C5_BucketThresholds ==
    pc = "done" =>
        [k \in 1..Len(healthiness.flakyBuckets) |-> healthiness.flakyBuckets[k].threshold]
            = <<FromInt(20), FromInt(10), FromInt(3), FromInt(0)>>

\* what holds of C5 in the revision of src/unnamed/part_002
C5_BucketThresholds_part_002 == rev = "part_002" => C5_BucketThresholds

----------------------------------------------------------------------------
(* Properties of calculateInfraInfo *)

\* cause, a space, the percentage 100*count/failedCount with two decimals, %
ExpectedItem(cause, count, failedCount) ==
    cause \o <<" ">> \o Sprintf2f(Rat(100 * count, failedCount)) \o <<"%">>

\* the items joined by single spaces
RECURSIVE JoinWithSpaces(_)
JoinWithSpaces(parts) ==
    IF parts = <<>> THEN <<>>
    ELSE IF Len(parts) = 1 THEN parts[1]
    ELSE parts[1] \o <<" ">> \o JoinWithSpaces(Tail(parts))

\* C6: calculateInfraInfo returns the empty string when issues is empty or
\* failedCount is 0; otherwise every cause once with its percentage, by
\* descending count and, among equal counts, ascending natural order of the
\* cause, whatever the iteration order of the map.
C6_InfraInfoRanked ==
    pc = "return" =>
        LET issues == call.issues
            n == call.failedCount
        IN  IF DOMAIN issues = {} \/ n = 0 THEN ret = <<>>
            ELSE \E o \in IterationOrders(DOMAIN issues) :
                    /\ \A x, y \in 1..Len(o) :
                          x < y =>
                              \/ issues[o[x]] > issues[o[y]]
                              \/ issues[o[x]] = issues[o[y]] /\ NaturalLess(o[x], o[y])
                    /\ ret = JoinWithSpaces(
                                [k \in 1..Len(o) |-> ExpectedItem(o[k], issues[o[k]], n)])

\* what holds of C6 in the revision of src/unnamed/part_002
C6_InfraInfoRanked_part_002 == rev = "part_002" => C6_InfraInfoRanked

----------------------------------------------------------------------------
(* categorizeFailure applied on its own *)

msgSpaced == <<"i", "n", "f", "r", "a", " ", "1">>

msgHyphen == <<"i", "n", "f", "r", "a", "-", "1">>

FailureMessages == {msgEmpty, msgInfra1, msgInfra2, msgAssert, msgSpaced, msgHyphen}

InitCategorize ==
    /\ rev \in Revisions
    /\ pc = "call"
    /\ PipelineIdle
    /\ \E p \in 0..1, f \in 0..1, fl \in 0..1, m \in InfraCases :
          \E message \in FailureMessages :
             call = [resultCounts |-> MakeResult(<<>>, p, f, fl, m),
                     message |-> message]
    /\ ret = <<>>

CallCategorizeFailure ==
    Return({ categorizeFailure(call.resultCounts, call.message) })

SpecCategorize == InitCategorize /\ [][CallCategorizeFailure]_vars

\* C11: categorizeFailure changes exactly one failure counter by one: for a
\* message that is empty or no bare token of word characters failed goes up
\* by one and nothing else changes; for a bare token failedInfraCount and
\* infraFailures[message] go up by one and nothing else changes.
C11_CategorizeFailureFrame ==
    pc = "return" =>
        LET rc == call.resultCounts
            m == call.message
            old == IF m \in DOMAIN rc.infraFailures THEN rc.infraFailures[m] ELSE 0
        IN  /\ ret.name = rc.name
            /\ ret.passed = rc.passed
            /\ ret.flakyCount = rc.flakyCount
            /\ ret.averageFlakiness = rc.averageFlakiness
            /\ IF ~IsInfraMessage(m)
               THEN /\ ret.failed = rc.failed + 1
                    /\ ret.failedInfraCount = rc.failedInfraCount
                    /\ ret.infraFailures = rc.infraFailures
               ELSE /\ ret.failed = rc.failed
                    /\ ret.failedInfraCount = rc.failedInfraCount + 1
                    /\ DOMAIN ret.infraFailures = DOMAIN rc.infraFailures \cup {m}
                    /\ ret.infraFailures[m] = old + 1
                    /\ \A k \in DOMAIN rc.infraFailures :
                          k # m => ret.infraFailures[k] = rc.infraFailures[k]

\* a cause already counted twice is counted a third time
C11_Witness ==
    /\ pc = "return"
    /\ call.message = msgInfra1
    /\ call.resultCounts.failed = 1
    /\ call.resultCounts.infraFailures = (msgInfra1 :> 2) @@ (msgInfra2 :> 1)
    /\ ret.failed = 1
    /\ ret.failedInfraCount = 4
    /\ ret.infraFailures = (msgInfra1 :> 3) @@ (msgInfra2 :> 1)

----------------------------------------------------------------------------
(* isWithinTimeFrame applied on its own *)

\* column.Started, startTime and endTime around the window [0, 2]
TimeValues == {-1, 0, 1, 2, 4}

InitWithin ==
    /\ rev \in Revisions
    /\ pc = "call"
    /\ PipelineIdle
    /\ \E t \in TimeValues, a \in TimeValues, b \in TimeValues :
          call = [started |-> t, startTime |-> a, endTime |-> b]
    /\ ret = <<>>

CallIsWithinTimeFrame ==
    Return({ isWithinTimeFrame(call.started, call.startTime, call.endTime) })

SpecWithin == InitWithin /\ [][CallIsWithinTimeFrame]_vars

\* C12: isWithinTimeFrame returns true if and only if
\* startTime <= column.started <= endTime, both bounds included.
C12_WithinTimeFrameInclusive ==
    pc = "return" =>
        (ret = TRUE <=> (call.startTime <= call.started /\ call.started <= call.endTime))

\* the column started at the end of the window [0, 2]
C12_Witness ==
    /\ pc = "return"
    /\ call = [started |-> 2, startTime |-> 0, endTime |-> 2]
    /\ ret = TRUE

----------------------------------------------------------------------------
(* Properties of the running mean of parseGrid *)

\* the averageFlakiness that goes with a flakyCount
MeanOfDefaults(flakyCount) ==
    IF flakyCount = 0 THEN FromInt(0) ELSE FromInt(50)

\* C13: at every point of a row's scan, and in every Result emitted, the
\* row's averageFlakiness is 0 when flakyCount is 0 and exactly 50 when
\* flakyCount is at least 1, flakyCount being the number of in-window FLAKY
\* positions visited, however they are interleaved with other outcomes.
C13_AverageFlakinessOfRow ==
    /\ pc = "scan" =>
          /\ resultCounts.flakyCount = Cardinality(VisitedInWindow("FLAKY"))
          /\ resultCounts.averageFlakiness = MeanOfDefaults(resultCounts.flakyCount)
    /\ \A k \in 1..Len(scanned) :
          scanned[k].counts.averageFlakiness =
              MeanOfDefaults(scanned[k].counts.flakyCount)
    /\ \A k \in 1..Len(results) :
          results[k].averageFlakiness = MeanOfDefaults(results[k].flakyCount)

\* a row's second FLAKY position has been scanned
C13_Witness ==
    /\ pc = "scan"
    /\ i = 1
    /\ resultCounts.flakyCount = 2
    /\ resultCounts.averageFlakiness = FromInt(50)

----------------------------------------------------------------------------
(* Properties of the report's totals *)

\* C14: in every report of naiveFlakiness totalTests is the length of tests
\* (one per key of the merged map), totalConfigs is the length of the results
\* list, rows skipped or merged away included, so totalTests <= totalConfigs;
\* totalJailedTests is 0.
C14_ReportTotals ==
    pc = "done" =>
        /\ healthiness.totalTests = Len(healthiness.tests)
        /\ healthiness.totalTests = Cardinality(DOMAIN testByEnv)
        /\ healthiness.totalConfigs = Len(results)
        /\ healthiness.totalTests <= healthiness.totalConfigs
        /\ healthiness.totalJailedTests = 0

\* of two rows one was skipped for insufficient runs
C14_Witness ==
    /\ pc = "done"
    /\ Len(results) = 2
    /\ Cardinality(PassingRows) = 1
    /\ healthiness.totalTests = 1
    /\ healthiness.totalConfigs = 2

\* the float64 sum of the flakiness of the first n tests, in their order
RECURSIVE SumFlakiness(_, _)
SumFlakiness(tests, n) ==
    IF n = 0 THEN FromInt(0)
    ELSE FAdd(SumFlakiness(tests, n - 1), tests[n].flakiness)

\* C15: the report's averageFlakiness is the sum of the flakiness of the
\* TestInfos of tests divided by totalTests when totalTests > 0, and 0 when
\* totalTests is 0.
C15_ReportAverage ==
    pc = "done" =>
        LET tests == healthiness.tests
        IN  /\ healthiness.totalTests = Len(tests)
            /\ IF Len(tests) = 0
               THEN healthiness.averageFlakiness = FromInt(0)
               ELSE healthiness.averageFlakiness =
                        FDiv(SumFlakiness(tests, Len(tests)), FromInt(Len(tests)))

\* two tests of flakiness 10 and 15: the average is 12.5
C15_Witness ==
    /\ pc = "done"
    /\ healthiness.totalTests = 2
    /\ {healthiness.tests[k].flakiness : k \in 1..2} = {FromInt(10), FromInt(15)}
    /\ healthiness.averageFlakiness = <<25, 2>>

----------------------------------------------------------------------------
(* Properties of the counters of a row *)

\* failedInfraCount is the sum of infraFailures, whose keys are bare tokens
\* of word characters counted at least once
InfraFailuresConsistent(rc) ==
    /\ rc.failedInfraCount = SumOver(rc.infraFailures, DOMAIN rc.infraFailures)
    /\ \A m \in DOMAIN rc.infraFailures :
          IsInfraMessage(m) /\ rc.infraFailures[m] >= 1

\* C17: at every point of a row's scan and in every Result emitted,
\* failedInfraCount is the sum of the values of infraFailures and every key
\* of infraFailures is a non-empty bare token with a count of at least 1; a
\* row starts from zero counters and an empty map, and its counts are those
\* of its own positions only.
C17_RowCountersOwnAndConsistent ==
    /\ InfraFailuresConsistent(resultCounts)
    /\ \A k \in 1..Len(scanned) : InfraFailuresConsistent(scanned[k].counts)
    /\ \A k \in 1..Len(results) : InfraFailuresConsistent(results[k])
    /\ (pc = "scan" /\ i = -1) => resultCounts = NewResult
    /\ pc = "scan" =>
          /\ resultCounts.failedInfraCount =
                 Cardinality({k \in VisitedInWindow("FAIL") : IsInfraMessage(test.Messages[k])})
          /\ resultCounts.passed + resultCounts.failed + resultCounts.flakyCount
                 + resultCounts.failedInfraCount <= i + 1

\* the first row ended with two infrastructure failures, the second row has
\* one after its first position
C17_Witness ==
    /\ pc = "scan"
    /\ Len(scanned) = 1
    /\ scanned[1].counts.failedInfraCount = 2
    /\ i = 0
    /\ resultCounts.failedInfraCount = 1
    /\ resultCounts.infraFailures = (msgInfra2 :> 1)

----------------------------------------------------------------------------
(* Independence of the iteration order of the maps *)

\* the values of infraIssues and testByEnv the loop of naiveFlakiness can
\* end with, from the given values before row k + 1, over every iteration
\* order of the maps ranged over on the way
RECURSIVE LoopOutcomes(_, _)
LoopOutcomes(states, k) ==
    IF k >= Len(results) THEN states
    ELSE LoopOutcomes(
             UNION { naiveLoopBody(rev, s.testByEnv, s.infraIssues,
                                   results[k + 1], minRuns, tab) : s \in states },
             k + 1)

\* the reports naiveFlakiness can return from the current state
PossibleReports ==
    UNION { { createHealthiness(rev, startTime, endTime, results,
                                s.testByEnv, s.infraIssues, o) :
                o \in IterationOrders(DOMAIN s.testByEnv) } :
            s \in LoopOutcomes({[infraIssues |-> infraIssues,
                                 testByEnv |-> testByEnv]}, testIdx) }

\* what of a report must not depend on the iteration order
OrderFreePart(h) ==
    [totalTests |-> h.totalTests,
     totalConfigs |-> h.totalConfigs,
     flakyBuckets |-> h.flakyBuckets,
     infraIssues |-> h.infraIssues,
     tests |-> {h.tests[k] : k \in 1..Len(h.tests)}]

\* C16: any two runs of naiveFlakiness on the same results, minRuns and tab
\* that differ only in the iteration order of the maps return reports with
\* the same totalTests, totalConfigs, buckets, infraIssues and set of
\* TestInfos, the infraInfo of every TestInfo included.
C16_IterationOrderIndependent ==
    pc = "naiveFlakiness" =>
        \A h1, h2 \in PossibleReports : OrderFreePart(h1) = OrderFreePart(h2)

\* what holds of C16 in the revision of src/unnamed/part_002
C16_IterationOrderIndependent_part_002 ==
    rev = "part_002" => C16_IterationOrderIndependent

====
